---- MODULE Spec2Model ----
(***************************************************************************)
(* chat-md-script: a watcher that turns chat.md into a chat transcript.    *)
(* script.go holds two variants of the program: the plain variant          *)
(* (separator "\n***\n", lines 1-313) and the marker variant (span colour  *)
(* tags, lines 315-609).  Documents are sequences of one-character strings.*)
(***************************************************************************)
EXTENDS Integers, Sequences, FiniteSets, TLC

VARIABLES
    variant,      \* which of the two programs of script.go runs
    doc,          \* content of chat.md
    lastContent,  \* the package variable lastContent
    pending,      \* write notifications waiting in watcher.Events
    pc,           \* position of the main goroutine inside a tick
    request,      \* messages of the service call in flight
    response,     \* reply returned by the service
    offset,       \* file position appendToChat has seeked to
    typed,        \* chunks the human has typed so far
    faults,       \* failures injected so far
    tickStart,    \* history: lastContent when the last tick began
    tickDoc,      \* history: content the last tick read
    outcome,      \* history: how the last tick ended
    candidate,    \* history: new-turn text of the last tick that called
    clean,        \* history: no human edit since the last completed re-read
    wrote,        \* history: the last tick wrote bytes to chat.md
    prevOutcome,  \* history: how the tick before the last one ended
    retry,        \* history: the last call repeats a failed tick's turn
    startDoc      \* history: content of chat.md when the program started

vars == <<variant, doc, lastContent, pending, pc, request, response, offset,
          typed, faults, tickStart, tickDoc, outcome, candidate, clean,
          wrote, prevOutcome, retry, startDoc>>

hist == <<wrote, prevOutcome, retry>>

(* ---------------------------- bounds ----------------------------------- *)
MaxRounds == 7     \* question/reply rounds already in chat.md at startup
MaxTyped == 2      \* chunks the human types during a run
MaxPending == 2    \* change notifications waiting in the watcher's queue
MaxFaults == 1     \* read, service and write failures during a run
MaxPartial == 0    \* bytes a failing WriteString may have written
MaxTurns == 14     \* separator-delimited turns of a hand-written chat.md

(* ---------------------------- text ------------------------------------- *)
NL == "\n"
Terminator == <<NL, NL>>
Separator == <<NL, "*", "*", "*", NL>>
SepLen == 5
SpanTag == <<"<", "s", "p", "a", "n">>
OrangeMark == <<"c", "o", "l", "o", "r", ":", " ", "o", "r", "a", "n", "g", "e">>
OrangeOpen == <<"<", "s", "p", "a", "n", " ", "s", "t", "y", "l", "e", "=", "\"">>
                 \o OrangeMark \o <<"\"", ">">>
SpanClose == <<"<", "/", "s", "p", "a", "n", ">">>

IsSpace(c) == c \in {" ", NL, "\t", "\r"}

\* s[lo:hi] of Go, with 0-based lo and exclusive hi
Slice(s, lo, hi) == SubSeq(s, lo + 1, hi)

MatchAt(s, p, i) ==
    /\ i >= 0
    /\ i + Len(p) <= Len(s)
    /\ \A k \in 1..Len(p) : s[i + k] = p[k]

\* strings.Index / strings.LastIndex: 0-based position, -1 when absent
Occurrences(s, p) == {i \in 0..(Len(s) - Len(p)) : MatchAt(s, p, i)}

SetMax(S) == CHOOSE m \in S : \A n \in S : n <= m
SetMin(S) == CHOOSE m \in S : \A n \in S : m <= n

Index(s, p) ==
    LET occ == Occurrences(s, p) IN IF occ = {} THEN -1 ELSE SetMin(occ)
LastIndex(s, p) ==
    LET occ == Occurrences(s, p) IN IF occ = {} THEN -1 ELSE SetMax(occ)
Contains(s, p) == Occurrences(s, p) # {}
\* fault: any occurrence of p counts as a suffix
HasSuffixAnywhere(s, p) == Len(s) >= Len(p) /\ Contains(s, p)

HasSuffix(s, p) == Len(s) >= Len(p) /\ MatchAt(s, p, Len(s) - Len(p))
HasPrefix(s, p) == MatchAt(s, p, 0)

\* strings.TrimSpace: drop leading and trailing white space
RECURSIVE TrimLeft(_, _)
TrimLeft(s, i) ==
    IF i > Len(s) THEN i ELSE IF IsSpace(s[i]) THEN TrimLeft(s, i + 1) ELSE i

RECURSIVE TrimRight(_, _)
TrimRight(s, i) ==
    IF i < 1 THEN i ELSE IF IsSpace(s[i]) THEN TrimRight(s, i - 1) ELSE i

TrimSpace(s) == SubSeq(s, TrimLeft(s, 1), TrimRight(s, Len(s)))

\* strings.Split: cut at the leftmost separator, then split the rest
RECURSIVE SplitFrom(_, _, _, _)
SplitFrom(s, sep, occ, start) ==
    LET rest == {i \in occ : i >= start}
    IN  IF rest = {} THEN <<Slice(s, start, Len(s))>>
        ELSE LET i == SetMin(rest)
             IN  <<Slice(s, start, i)>>
                     \o SplitFrom(s, sep, rest, i + Len(sep))

Split(s, sep) == SplitFrom(s, sep, Occurrences(s, sep), 0)

\* s[len(s)-n:] when len(s) > n
LastN(s, n) == IF Len(s) > n THEN SubSeq(s, Len(s) - n + 1, Len(s)) ELSE s

Message(role, content) == [Role |-> role, Content |-> content]

(* ---------------------- plain variant: parser -------------------------- *)
ParseLimit == 6
PrevLimit == 5

\* role of the piece with 0-based index i
RoleOfPart(i) == IF i % 2 = 0 THEN "user" ELSE "assistant"

RECURSIVE PartsToMessages(_, _)
PartsToMessages(parts, i) ==
    IF i >= Len(parts) THEN <<>>
    ELSE LET part == TrimSpace(parts[i + 1])
         IN  (IF part = <<>> THEN <<>> ELSE <<Message(RoleOfPart(i), part)>>)
             \o PartsToMessages(parts, i + 1)

\* fault: the oldest ParseLimit messages are kept instead of the newest
parseMessagesKeepOldest(content) ==
    LET all == PartsToMessages(Split(content, Separator), 0)
    IN  IF Len(all) > ParseLimit THEN SubSeq(all, 1, ParseLimit) ELSE all

parseMessages(content) ==
    LastN(PartsToMessages(Split(content, Separator), 0), ParseLimit)

(* ---------------------- plain variant: detector ------------------------ *)
\* fault: the text is cut at the first separator instead of the last
MessageContentFirstSep(currentContent) ==
    LET lastIndex == LastIndex(currentContent, Terminator)
        contentBeforeCursor == Slice(currentContent, 0, lastIndex)
        lastSepIndex == Index(contentBeforeCursor, Separator)
    IN  IF lastSepIndex = -1
        THEN TrimSpace(contentBeforeCursor)
        ELSE TrimSpace(Slice(contentBeforeCursor, lastSepIndex + SepLen,
                             Len(contentBeforeCursor)))

\* the text of the new turn and the context sent, for a document that ends
\* with the terminator
MessageContent(currentContent) ==
    LET lastIndex == LastIndex(currentContent, Terminator)
        contentBeforeCursor == Slice(currentContent, 0, lastIndex)
        lastSepIndex == LastIndex(contentBeforeCursor, Separator)
    IN  IF lastSepIndex = -1
        THEN TrimSpace(contentBeforeCursor)
        ELSE TrimSpace(Slice(contentBeforeCursor, lastSepIndex + SepLen,
                             Len(contentBeforeCursor)))
\* fault: the previous messages are not cut to PrevLimit
PrevMessagesUntrimmed(currentContent) ==
    LET lastIndex == LastIndex(currentContent, Terminator)
        contentBeforeCursor == Slice(currentContent, 0, lastIndex)
        lastSepIndex == LastIndex(contentBeforeCursor, Separator)
    IN  IF lastSepIndex = -1 THEN <<>>
        ELSE parseMessages(Slice(currentContent, 0, lastSepIndex))

PrevMessages(currentContent) ==
    LET lastIndex == LastIndex(currentContent, Terminator)
        contentBeforeCursor == Slice(currentContent, 0, lastIndex)
        lastSepIndex == LastIndex(contentBeforeCursor, Separator)
    IN  IF lastSepIndex = -1 THEN <<>>
        ELSE LastN(parseMessages(Slice(currentContent, 0, lastSepIndex)), PrevLimit)

Context(currentContent) ==
    PrevMessages(currentContent)
        \o <<Message("user", MessageContent(currentContent))>>
\* fault: a document without terminator is not stored
PlainAdvancesNoWaiting == {"Invalid", "Empty"}

\* the decisions after which processNewMessages stores the content it read
PlainAdvances == {"Waiting", "Invalid", "Empty"}
\* fault: the comparison with lastContent comes after the terminator check
DetectTerminatorFirst(prev, currentContent) ==
    IF ~HasSuffix(currentContent, Terminator) THEN "Waiting"
    ELSE IF LastIndex(currentContent, Terminator) = -1 THEN "Invalid"
    ELSE IF MessageContent(currentContent) = <<>> THEN "Empty"
    ELSE IF currentContent = prev THEN "NoChange"
    ELSE "NewUserTurn"

\* the decision of processNewMessages on the content it has read
Detect(prev, currentContent) ==
    IF currentContent = prev THEN "NoChange"
    ELSE IF ~HasSuffix(currentContent, Terminator) THEN "Waiting"
    ELSE IF LastIndex(currentContent, Terminator) = -1 THEN "Invalid"
    ELSE IF MessageContent(currentContent) = <<>> THEN "Empty"
    ELSE "NewUserTurn"

(* ---------------------- reply writer ----------------------------------- *)
FormatPlain(message, isAssistant) ==
    IF isAssistant THEN <<NL>> \o message \o Separator
    ELSE <<NL>> \o message \o <<NL>>

\* WriteString at a seek position: bytes from pos on are replaced
WriteAt(content, pos, bytes) ==
    Slice(content, 0, pos) \o bytes
        \o Slice(content, pos + Len(bytes), Len(content))

(* ---------------------- marker variant: parser ------------------------- *)
\* bufio.Scanner with ScanLines: cut at "\n", no empty token after a final
\* "\n", a trailing "\r" of a line dropped
DropCR(line) ==
    IF Len(line) > 0 /\ line[Len(line)] = "\r"
    THEN SubSeq(line, 1, Len(line) - 1) ELSE line

ScanLines(content) ==
    LET raw == Split(content, <<NL>>)
        kept == IF raw[Len(raw)] = <<>> THEN SubSeq(raw, 1, Len(raw) - 1) ELSE raw
    IN  [i \in 1..Len(kept) |-> DropCR(kept[i])]

\* the last line that is not blank, trimmed ("" when there is none)
LastNonEmptyLine(content) ==
    LET lines == ScanLines(content)
        nonEmpty == {i \in 1..Len(lines) : TrimSpace(lines[i]) # <<>>}
    IN  IF nonEmpty = {} THEN <<>>
        ELSE TrimSpace(lines[CHOOSE i \in nonEmpty : \A j \in nonEmpty : j <= i])

\* the text between the span tags of a trimmed line
StripSpan(trimmed) ==
    IF Contains(trimmed, SpanTag)
    THEN LET start == Index(trimmed, <<">">>) + 1
             end == LastIndex(trimmed, <<"<">>)
         IN  IF start > 0 /\ end > start THEN Slice(trimmed, start, end)
             ELSE trimmed
    ELSE trimmed

RECURSIVE MessageLines(_, _)
MessageLines(lines, i) ==
    IF i > Len(lines) THEN <<>>
    ELSE LET trimmed == TrimSpace(lines[i])
         IN  (IF trimmed # <<>> /\ ~HasPrefix(trimmed, <<"#">>)
              THEN <<StripSpan(trimmed)>> ELSE <<>>)
             \o MessageLines(lines, i + 1)

parseMessagesMarker(content) ==
    LET messageLines == MessageLines(ScanLines(content), 1)
    IN  [i \in 1..Len(messageLines) |->
            Message(IF i % 2 = 1 THEN "user" ELSE "assistant", messageLines[i])]

\* fault: a document ending in an assistant line is not stored
MarkerAdvancesNoAssistant == {"Waiting", "NotUser"}

\* the decisions after which the marker variant stores the content it read
MarkerAdvances == {"Waiting", "AssistantLast", "NotUser"}

\* the decision of the marker variant's processNewMessages
DetectMarker(prev, currentContent) ==
    IF currentContent = prev THEN "NoChange"
    ELSE IF ~(Len(currentContent) >= 2
              /\ Slice(currentContent, Len(currentContent) - 2,
                       Len(currentContent)) = Terminator) THEN "Waiting"
    ELSE IF Contains(LastNonEmptyLine(currentContent), OrangeMark)
         THEN "AssistantLast"
    ELSE LET messages == parseMessagesMarker(currentContent)
         IN  IF Len(messages) = 0 THEN "NoMessages"
             ELSE IF messages[Len(messages)].Role # "user" THEN "NotUser"
             ELSE "NewUserTurn"

BlueOpen == <<"<", "s", "p", "a", "n", " ", "s", "t", "y", "l", "e", "=", "\"",
              "c", "o", "l", "o", "r", ":", " ", "b", "l", "u", "e", "\"", ">">>

FormatMarker(message, isAssistant) ==
    IF isAssistant THEN <<NL>> \o OrangeOpen \o message \o SpanClose \o <<NL>>
    ELSE <<NL>> \o BlueOpen \o message \o SpanClose \o <<NL>>

Format(v, message) ==
    IF v = "plain" THEN FormatPlain(message, TRUE) ELSE FormatMarker(message, TRUE)

(* ---------------------- state machine ---------------------------------- *)
Variants == {"plain", "marker"}
Replies == {<<"a">>, <<"a", NL, "b">>}
TypedChunks == {<<"x">>, <<NL>>, <<"x", NL, NL>>}

\* one question typed with double Enter and the reply the program appended
Round(v) == <<"x", NL, NL>> \o Format(v, <<"a">>)

RECURSIVE Rounds(_, _)
Rounds(v, k) == IF k = 0 THEN <<>> ELSE Rounds(v, k - 1) \o Round(v)

\* the ways a tick that reached the service call can fail
Failures == {"ServiceError", "AppendError", "WriteError"}

\* a notification put on the watcher's queue; dropped when the queue is full
Notify(n) == IF n < MaxPending THEN n + 1 ELSE n

\* documents found at startup: empty, and a history long enough to be
\* trimmed; a round of the marker variant parses into two messages, a round
\* of the plain variant into one
InitRounds(v) == IF v = "plain" THEN {0, MaxRounds} ELSE {0, MaxRounds \div 2}

Init ==
    /\ variant \in Variants
    /\ \E k \in InitRounds(variant) : doc = Rounds(variant, k)
    /\ lastContent = doc
    /\ pending = 0
    /\ pc = "Idle"
    /\ request = <<>>
    /\ response = <<>>
    /\ offset = 0
    /\ typed = 0
    /\ faults = 0
    /\ tickStart = doc
    /\ tickDoc = doc
    /\ outcome = "none"
    /\ candidate = <<>>
    /\ clean = FALSE
    /\ wrote = FALSE
    /\ prevOutcome = "none"
    /\ retry = FALSE
    /\ startDoc = doc

\* the human appends text at the end of chat.md and the editor saves it
HumanType(chunk) ==
    /\ typed < MaxTyped
    /\ typed' = typed + 1
    /\ doc' = doc \o chunk
    /\ pending' = Notify(pending)
    /\ clean' = FALSE
    /\ UNCHANGED <<variant, startDoc, lastContent, pc, request, response, offset,
                   faults, tickStart, tickDoc, outcome, candidate>>
    /\ UNCHANGED hist

\* the editor saves chat.md without changing it: a write event for the
\* same content
Resave ==
    /\ typed < MaxTyped
    /\ typed' = typed + 1
    /\ pending' = Notify(pending)
    /\ UNCHANGED <<variant, startDoc, doc, lastContent, pc, request, response,
                   offset, faults, tickStart, tickDoc, outcome, candidate,
                   clean>>
    /\ UNCHANGED hist

\* fault: a notification is received while a tick is in flight
ReadErrorInFlight ==
    /\ faults < MaxFaults
    /\ faults' = faults + 1
    /\ pending > 0
    /\ pending' = pending - 1
    /\ tickStart' = lastContent
    /\ outcome' = "ReadError"
    /\ UNCHANGED <<variant, startDoc, doc, lastContent, pc, request, response,
                   offset, typed, tickDoc, candidate, clean>>
    /\ prevOutcome' = outcome
    /\ wrote' = FALSE
    /\ retry' = FALSE

\* processNewMessages: os.ReadFile fails
ReadError ==
    /\ faults < MaxFaults
    /\ faults' = faults + 1
    /\ pc = "Idle"
    /\ pending > 0
    /\ pending' = pending - 1
    /\ tickStart' = lastContent
    /\ outcome' = "ReadError"
    /\ UNCHANGED <<variant, startDoc, doc, lastContent, pc, request, response, offset,
                   typed, tickDoc, candidate, clean>>
    /\ prevOutcome' = outcome
    /\ wrote' = FALSE
    /\ retry' = FALSE

\* processNewMessages of the plain variant, up to the service call
ProcessPlain ==
    /\ variant = "plain"
    /\ pc = "Idle"
    /\ pending > 0
    /\ pending' = pending - 1
    /\ tickStart' = lastContent
    /\ tickDoc' = doc
    /\ LET currentContent == doc
           result == Detect(lastContent, currentContent)
       IN  /\ lastContent' = IF result \in PlainAdvances
                             THEN currentContent ELSE lastContent
           /\ retry' = (result = "NewUserTurn" /\ outcome \in Failures
                            /\ currentContent = tickDoc)
           /\ IF result = "NewUserTurn"
              THEN /\ pc' = "Calling"
                   /\ request' = Context(currentContent)
                   /\ candidate' = MessageContent(currentContent)
                   /\ outcome' = "Called"
              ELSE /\ outcome' = result
                   /\ UNCHANGED <<pc, request, candidate>>
    /\ prevOutcome' = outcome
    /\ wrote' = FALSE
    /\ UNCHANGED <<variant, startDoc, doc, response, offset, typed, faults, clean>>

\* processNewMessages of the marker variant, up to the service call
ProcessMarker ==
    /\ variant = "marker"
    /\ pc = "Idle"
    /\ pending > 0
    /\ pending' = pending - 1
    /\ tickStart' = lastContent
    /\ tickDoc' = doc
    /\ LET currentContent == doc
           result == DetectMarker(lastContent, currentContent)
           messages == parseMessagesMarker(currentContent)
       IN  /\ lastContent' = IF result \in MarkerAdvances
                             THEN currentContent ELSE lastContent
           /\ retry' = (result = "NewUserTurn" /\ outcome \in Failures
                            /\ currentContent = tickDoc)
           /\ IF result = "NewUserTurn"
              THEN /\ pc' = "Calling"
                   /\ request' = messages
                   /\ candidate' = messages[Len(messages)].Content
                   /\ outcome' = "Called"
              ELSE /\ outcome' = result
                   /\ UNCHANGED <<pc, request, candidate>>
    /\ prevOutcome' = outcome
    /\ wrote' = FALSE
    /\ UNCHANGED <<variant, startDoc, doc, response, offset, typed, faults, clean>>

\* callDeepSeekAPI returns the first choice's content
ServiceReply(r) ==
    /\ pc = "Calling"
    /\ response' = r
    /\ pc' = "Append"
    /\ UNCHANGED <<variant, startDoc, doc, lastContent, pending, request, offset, typed, faults,
                   tickStart, tickDoc, outcome, candidate, clean>>
    /\ UNCHANGED hist
\* fault: a failed call stores the content the tick read
ServiceErrorAdvance ==
    /\ faults < MaxFaults
    /\ faults' = faults + 1
    /\ pc = "Calling"
    /\ pc' = "Idle"
    /\ lastContent' = tickDoc
    /\ outcome' = "ServiceError"
    /\ UNCHANGED <<variant, startDoc, doc, pending, request, response,
                   offset, typed, tickStart, tickDoc, candidate, clean>>
    /\ UNCHANGED hist

\* fault: a failed call is issued again at once
ServiceErrorRetry ==
    /\ faults < MaxFaults
    /\ faults' = faults + 1
    /\ pc = "Calling"
    /\ pc' = "Calling"
    /\ outcome' = "ServiceError"
    /\ UNCHANGED <<variant, startDoc, doc, lastContent, pending, request, response,
                   offset, typed, tickStart, tickDoc, candidate, clean>>
    /\ UNCHANGED hist

\* callDeepSeekAPI returns an error (transport, decoding, no choices)
ServiceError ==
    /\ faults < MaxFaults
    /\ faults' = faults + 1
    /\ pc = "Calling"
    /\ pc' = "Idle"
    /\ outcome' = "ServiceError"
    /\ UNCHANGED <<variant, startDoc, doc, lastContent, pending, request, response,
                   offset, typed, tickStart, tickDoc, candidate, clean>>
    /\ UNCHANGED hist

\* appendToChat: open, stat and seek to the size just read
AppendSeek ==
    /\ pc = "Append"
    /\ offset' = Len(doc)
    /\ pc' = "Write"
    /\ UNCHANGED <<variant, startDoc, doc, lastContent, pending, request, response,
                   typed, faults, tickStart, tickDoc, outcome, candidate, clean>>
    /\ UNCHANGED hist
\* fault: a failed open stores the content the tick read
AppendErrorAdvance ==
    /\ faults < MaxFaults
    /\ faults' = faults + 1
    /\ pc = "Append"
    /\ pc' = "Idle"
    /\ lastContent' = tickDoc
    /\ outcome' = "AppendError"
    /\ UNCHANGED <<variant, startDoc, doc, pending, request, response,
                   offset, typed, tickStart, tickDoc, candidate, clean>>
    /\ UNCHANGED hist

\* appendToChat: open, stat or seek fails
AppendError ==
    /\ faults < MaxFaults
    /\ faults' = faults + 1
    /\ pc = "Append"
    /\ pc' = "Idle"
    /\ outcome' = "AppendError"
    /\ UNCHANGED <<variant, startDoc, doc, lastContent, pending, request, response,
                   offset, typed, tickStart, tickDoc, candidate, clean>>
    /\ UNCHANGED hist

\* appendToChat: WriteString at the seeked position
AppendWrite ==
    /\ pc = "Write"
    /\ doc' = WriteAt(doc, offset, Format(variant, response))
    /\ pending' = Notify(pending)
    /\ pc' = "Reread"
    /\ UNCHANGED <<variant, startDoc, lastContent, request, response, offset, typed, faults,
                   tickStart, tickDoc, outcome, candidate, clean>>
    /\ wrote' = TRUE
    /\ UNCHANGED <<prevOutcome, retry>>

\* fault: a write error ends the program
AppendWriteErrorStop(n) ==
    /\ faults < MaxFaults
    /\ faults' = faults + 1
    /\ pc = "Write"
    /\ doc' = WriteAt(doc, offset, SubSeq(Format(variant, response), 1, n))
    /\ pending' = IF n > 0 THEN Notify(pending) ELSE pending
    /\ pc' = "Stopped"
    /\ outcome' = "WriteError"
    /\ UNCHANGED <<variant, startDoc, lastContent, request, response, offset, typed,
                   tickStart, tickDoc, candidate, clean>>
    /\ wrote' = (n > 0)
    /\ UNCHANGED <<prevOutcome, retry>>

\* appendToChat: WriteString fails after n bytes
AppendWriteError(n) ==
    /\ faults < MaxFaults
    /\ faults' = faults + 1
    /\ pc = "Write"
    /\ doc' = WriteAt(doc, offset, SubSeq(Format(variant, response), 1, n))
    /\ pending' = IF n > 0 THEN Notify(pending) ELSE pending
    /\ pc' = "Idle"
    /\ outcome' = "WriteError"
    /\ UNCHANGED <<variant, startDoc, lastContent, request, response, offset, typed,
                   tickStart, tickDoc, candidate, clean>>
    /\ wrote' = (n > 0)
    /\ UNCHANGED <<prevOutcome, retry>>

\* fault: lastContent is not read again after the append
RereadStale ==
    /\ pc = "Reread"
    /\ lastContent' = lastContent
    /\ clean' = TRUE
    /\ pc' = "Idle"
    /\ outcome' = "Done"
    /\ UNCHANGED <<variant, startDoc, doc, pending, request, response, offset, typed,
                   faults, tickStart, tickDoc, candidate>>
    /\ UNCHANGED hist

\* the read of chat.md that follows a successful append
Reread ==
    /\ pc = "Reread"
    /\ lastContent' = doc
    /\ clean' = TRUE
    /\ pc' = "Idle"
    /\ outcome' = "Done"
    /\ UNCHANGED <<variant, startDoc, doc, pending, request, response, offset, typed, faults,
                   tickStart, tickDoc, candidate>>
    /\ UNCHANGED hist

\* that read fails: the plain variant keeps lastContent, the marker variant
\* stores the empty content ReadFile returned
RereadError ==
    /\ faults < MaxFaults
    /\ faults' = faults + 1
    /\ pc = "Reread"
    /\ lastContent' = IF variant = "plain" THEN lastContent ELSE <<>>
    /\ pc' = "Idle"
    /\ outcome' = "RereadError"
    /\ UNCHANGED <<variant, startDoc, doc, pending, request, response, offset, typed,
                   tickStart, tickDoc, candidate, clean>>
    /\ UNCHANGED hist

Next ==
    \/ \E chunk \in TypedChunks : HumanType(chunk)
    \/ Resave
    \/ ReadError
    \/ ProcessPlain
    \/ ProcessMarker
    \/ \E r \in Replies : ServiceReply(r)
    \/ ServiceError
    \/ AppendSeek
    \/ AppendError
    \/ AppendWrite
    \/ \E n \in 0..MaxPartial : AppendWriteError(n)
    \/ Reread
    \/ RereadError

Spec == Init /\ [][Next]_vars

\* the steps of a tick after the document has been read
InFlight ==
    \/ \E r \in Replies : ServiceReply(r)
    \/ ServiceError
    \/ AppendSeek
    \/ AppendError
    \/ AppendWrite
    \/ \E n \in 0..MaxPartial : AppendWriteError(n)
    \/ Reread
    \/ RereadError

\* the select of main receives a notification
Received == pc = "Idle" /\ pending' = pending - 1

\* the for/select loop of main keeps running: every call made inside a tick
\* returns, the service call included, and a notification that waits while
\* the loop is idle is received (weak fairness of Received, with its
\* enabling condition written out)
FairSpec ==
    /\ Spec
    /\ WF_vars(InFlight)
    /\ \/ []<>(pc # "Idle" \/ pending = 0)
       \/ []<><<Received>>_vars

(* ------------- hand-written documents, plain variant ------------------- *)
Letters == <<"a", "b", "c", "d", "e", "f", "g", "h", "i", "j", "k", "l", "m",
             "n", "o", "p", "q", "r", "s", "t", "u", "v", "w", "y", "z">>

\* a chat.md of k one-letter turns joined by the separator parseMessages
\* splits on; gap > 0 puts a second separator after turn number gap, which
\* leaves an empty piece there
RECURSIVE AltDoc(_, _)
AltDoc(k, gap) ==
    IF k = 0 THEN <<>>
    ELSE IF k = 1 THEN <<Letters[1]>>
    ELSE AltDoc(k - 1, gap) \o Separator
             \o (IF gap = k - 1 THEN Separator ELSE <<>>) \o <<Letters[k]>>

\* what follows the last turn: nothing, one Enter, or the terminator
StartTails == {<<>>, <<NL>>, Terminator}

StartDocs ==
    {AltDoc(k, gap) \o tail :
        k \in 0..MaxTurns, gap \in 0..MaxTurns, tail \in StartTails}

\* fault: lastContent is not loaded at startup
InitDocsNotLoaded ==
    /\ variant = "plain"
    /\ doc \in StartDocs
    /\ lastContent = <<>>
    /\ pending = 0
    /\ pc = "Idle"
    /\ request = <<>>
    /\ response = <<>>
    /\ offset = 0
    /\ typed = MaxTyped - 1
    /\ faults = 0
    /\ tickStart = doc
    /\ tickDoc = doc
    /\ outcome = "none"
    /\ candidate = <<>>
    /\ clean = FALSE
    /\ wrote = FALSE
    /\ prevOutcome = "none"
    /\ retry = FALSE
    /\ startDoc = doc

\* main, lines 88-92, started on a hand-written chat.md; the human has one
\* save left
InitDocs ==
    /\ variant = "plain"
    /\ doc \in StartDocs
    /\ lastContent = doc
    /\ pending = 0
    /\ pc = "Idle"
    /\ request = <<>>
    /\ response = <<>>
    /\ offset = 0
    /\ typed = MaxTyped - 1
    /\ faults = 0
    /\ tickStart = doc
    /\ tickDoc = doc
    /\ outcome = "none"
    /\ candidate = <<>>
    /\ clean = FALSE
    /\ wrote = FALSE
    /\ prevOutcome = "none"
    /\ retry = FALSE
    /\ startDoc = doc

NextDocs ==
    \/ \E chunk \in TypedChunks : HumanType(chunk)
    \/ Resave
    \/ ReadError
    \/ ProcessPlain
    \/ \E r \in Replies : ServiceReply(r)
    \/ ServiceError
    \/ AppendSeek
    \/ AppendError
    \/ AppendWrite
    \/ \E n \in 0..MaxPartial : AppendWriteError(n)
    \/ Reread
    \/ RereadError

SpecDocs == InitDocs /\ [][NextDocs]_vars

TypeOK ==
    /\ variant \in Variants
    /\ pc \in {"Idle", "Calling", "Append", "Write", "Reread"}
    /\ pending \in 0..MaxPending
    /\ typed \in 0..MaxTyped
    /\ faults \in 0..MaxFaults
    /\ offset \in 0..Len(doc)

(* ---------------------- properties ------------------------------------- *)
\* the main loop takes a notification and processNewMessages reads chat.md
Ticked == pc = "Idle" /\ pending' = pending - 1 /\ faults' = faults

EndsWithTwoNewlines(d) == Len(d) >= 2 /\ d[Len(d)] = NL /\ d[Len(d) - 1] = NL

LastOf(s) == s[Len(s)]

\* C1: plain variant: once a tick has called the service, appended the reply
\* and re-read lastContent, every later tick that finds the document not
\* edited by the human issues no call, writes nothing and keeps lastContent.
C1_ReplyNeverRetriggers ==
    [][(variant = "plain" /\ clean /\ Ticked)
           => (pc' = "Idle" /\ doc' = doc /\ lastContent' = lastContent)]_vars

C1_Witness ==
    /\ variant = "plain"
    /\ clean
    /\ prevOutcome = "Done"
    /\ outcome = "NoChange"
    /\ pc = "Idle"

\* C2: plain variant: a tick whose candidate text is empty after trimming,
\* which includes a changed document ending in "\n***\n\n", issues no call,
\* writes nothing and stores the current content in lastContent.
C2_EmptyCandidateSkipped ==
    [][(/\ variant = "plain"
        /\ Ticked
        /\ doc # lastContent
        /\ EndsWithTwoNewlines(doc)
        /\ \/ MessageContent(doc) = <<>>
           \/ HasSuffix(doc, Separator \o <<NL>>))
           => (pc' = "Idle" /\ doc' = doc /\ lastContent' = doc)]_vars

\* C3: plain variant: the block appendToChat writes for a reply with
\* non-empty trimmed text, parsed alone or after the document the tick read,
\* ends with a turn of role assistant whose content is the trimmed reply.
C3_RoundTrip ==
    (variant = "plain" /\ pc = "Reread" /\ TrimSpace(response) # <<>>)
        => LET block == FormatPlain(response, TRUE)
               alone == parseMessages(block)
               after == parseMessages(tickDoc \o block)
           IN  /\ alone # <<>>
               /\ LastOf(alone) = Message("assistant", TrimSpace(response))
               /\ after # <<>>
               /\ LastOf(after) = Message("assistant", TrimSpace(response))

\* C4: plain variant: the list sent to the service has 1 to 6 messages and
\* ends with the user message holding the candidate text of the tick.
C4_ContextBounded ==
    (variant = "plain" /\ pc = "Calling")
        => /\ Len(request) >= 1
           /\ Len(request) <= 6
           /\ LastOf(request).Role = "user"
           /\ LastOf(request).Content = candidate
           /\ candidate = MessageContent(tickDoc)
           /\ candidate # <<>>

C4_Witness ==
    /\ variant = "plain"
    /\ pc = "Calling"
    /\ Len(request) = 6
    /\ Len(parseMessages(tickDoc)) > 5

\* C5: in both variants a tick that reads content equal to lastContent is
\* NoChange: no call, no write, lastContent kept, also when the content
\* ends with the terminator.
C5_UnchangedIsNoChange ==
    [][(Ticked /\ doc = lastContent)
           => /\ outcome' = "NoChange"
              /\ pc' = "Idle"
              /\ doc' = doc
              /\ lastContent' = lastContent]_vars

C5_Witness ==
    /\ outcome = "NoChange"
    /\ pc = "Idle"
    /\ tickDoc = lastContent
    /\ EndsWithTwoNewlines(tickDoc)

\* C6 as claimed: a tick that reads content not ending in two newlines is
\* WaitingForTerminator whatever lastContent holds, equal content included.
C6_WaitingForAnyPrevious ==
    [][(Ticked /\ ~EndsWithTwoNewlines(doc)) => outcome' = "Waiting"]_vars

\* C6 amended: a tick that reads content not ending in two newlines and
\* different from lastContent is WaitingForTerminator; with equal content
\* it is NoChange.
C6_WaitingWhenChanged ==
    [][(Ticked /\ ~EndsWithTwoNewlines(doc))
           => outcome' = IF doc = lastContent THEN "NoChange" ELSE "Waiting"]_vars

C6_Witness ==
    /\ outcome = "Waiting"
    /\ pc = "Idle"
    /\ tickStart # tickDoc
    /\ ~EndsWithTwoNewlines(tickDoc)
    /\ ~EndsWithTwoNewlines(tickStart)

\* C7: in both variants a tick that reads changed content without the
\* terminator stores it in lastContent, calls nothing and writes nothing.
C7_HalfTypedAdvances ==
    [][(Ticked /\ doc # lastContent /\ ~EndsWithTwoNewlines(doc))
           => (lastContent' = doc /\ pc' = "Idle" /\ doc' = doc)]_vars

C7_Witness ==
    /\ outcome = "Waiting"
    /\ prevOutcome = "Waiting"
    /\ pc = "Idle"
    /\ lastContent = tickDoc
    /\ tickStart # tickDoc

\* C8: a tick ended by a service error or by a failing append is back in
\* Idle with lastContent as it was when the tick began, and after a service
\* error the tick has written nothing.
C8_FailureKeepsBaseline ==
    outcome \in Failures
        => /\ pc = "Idle"
           /\ lastContent = tickStart
           /\ (outcome = "ServiceError" => ~wrote)

C8_Witness ==
    /\ outcome \in Failures
    /\ pc = "Idle"
    /\ tickStart # tickDoc
    /\ lastContent = tickStart

\* C9 as claimed: after a tick whose call failed no tick calls the service
\* while the document is as that tick read it.
C9_NoRetryUntilEdit ==
    [][(outcome = "ServiceError" /\ Ticked /\ doc = tickDoc)
           => pc' # "Calling"]_vars

\* C9 amended: a failed call ends the tick in Idle and is not repeated by
\* the tick itself; the next call is issued only by a tick that takes a
\* notification from the queue.
C9_RetryOnlyOnNotification ==
    [][/\ (outcome' = "ServiceError" /\ outcome # "ServiceError") => pc' = "Idle"
       /\ (outcome = "ServiceError" /\ pc' = "Calling")
              => (pc = "Idle" /\ pending > 0 /\ pending' = pending - 1)]_vars

C9_Witness ==
    /\ prevOutcome = "ServiceError"
    /\ retry
    /\ pc = "Calling"
    /\ doc = tickDoc

\* C10: after a failed call or append the turn is not lost: the next tick
\* that reads the document as the failed tick read it detects the same turn
\* and calls the service with the same messages.
C10_TurnDetectedAgain ==
    [][(outcome \in Failures /\ Ticked /\ doc = tickDoc)
           => (pc' = "Calling" /\ candidate' = candidate /\ request' = request)]_vars

C10_Witness ==
    /\ prevOutcome \in {"AppendError", "WriteError"}
    /\ retry
    /\ pc = "Calling"

\* roles user, assistant, user, ... from the first message on
Alternates(msgs) ==
    \A i \in 1..Len(msgs) :
        msgs[i].Role = IF i % 2 = 1 THEN "user" ELSE "assistant"

\* plain variant, for a document ending with the terminator: the text before
\* the terminator, the text before its last separator, and the trimmed text
\* after that separator
BeforeTerminator(d) == SubSeq(d, 1, Len(d) - 2)

PrecedingText(d) ==
    LET t == BeforeTerminator(d)
        i == LastIndex(t, Separator)
    IN  IF i = -1 THEN <<>> ELSE Slice(t, 0, i)

NewTurnText(d) ==
    LET t == BeforeTerminator(d)
        i == LastIndex(t, Separator)
    IN  IF i = -1 THEN TrimSpace(t) ELSE TrimSpace(Slice(t, i + SepLen, Len(t)))

\* C11: plain variant: the turns parseMessages returns for the text before
\* the new turn, and the messages sent to the service, alternate roles
\* starting with user, also with empty pieces and with trimmed histories.
C11_RolesAlternate ==
    (variant = "plain" /\ pc = "Calling")
        => /\ Alternates(parseMessages(PrecedingText(tickDoc)))
           /\ Alternates(request)

\* C12 as claimed: plain variant: the new-turn text is the trimmed text
\* after the last separator before the terminator, and the messages sent are
\* the turns parseMessages returns for the text before that separator
\* followed by the new user turn.
C12_ContextIsParsedPreceding ==
    (variant = "plain" /\ pc = "Calling")
        => /\ candidate = NewTurnText(tickDoc)
           /\ request = parseMessages(PrecedingText(tickDoc))
                            \o <<Message("user", candidate)>>

\* C12 amended: the new-turn text is as claimed and is not empty; the
\* messages sent are the last PrevLimit of the turns parseMessages returns
\* for the preceding text followed by the new user turn; "x\n\n" typed into
\* an empty document gives [user x], and "a\n***\nb\n***\nc\n\n" gives
\* [user a, assistant b, user c].
C12_BoundaryRule ==
    (variant = "plain" /\ pc = "Calling")
        => /\ candidate = NewTurnText(tickDoc)
           /\ candidate # <<>>
           /\ request = LastN(parseMessages(PrecedingText(tickDoc)), PrevLimit)
                            \o <<Message("user", candidate)>>
           /\ (tickStart = <<>> /\ tickDoc = <<"x", NL, NL>>)
                  => (PrecedingText(tickDoc) = <<>>
                        /\ request = <<Message("user", <<"x">>)>>)
           /\ tickDoc = AltDoc(3, 0) \o Terminator
                  => (PrecedingText(tickDoc) = AltDoc(2, 0)
                        /\ request = <<Message("user", <<"a">>),
                                       Message("assistant", <<"b">>),
                                       Message("user", <<"c">>)>>)

C12_Witness ==
    /\ variant = "plain"
    /\ pc = "Calling"
    /\ tickDoc = AltDoc(3, 0) \o Terminator
    /\ Len(request) = 3

\* every non-empty piece of a text as a turn, in the order of the text
AllTurns(text) == PartsToMessages(Split(text, Separator), 0)

\* C13 as claimed: plain variant: when the text before the new turn holds
\* more than 5 turns, parseMessages returns all of them, and the messages
\* sent are the last 5 of them followed by the new user turn, 6 in all.
C13_ParserYieldsAll ==
    (variant = "plain" /\ pc = "Calling"
        /\ Len(AllTurns(PrecedingText(tickDoc))) > PrevLimit)
        => LET prior == PrecedingText(tickDoc)
           IN  /\ parseMessages(prior) = AllTurns(prior)
               /\ request = LastN(AllTurns(prior), PrevLimit)
                                \o <<Message("user", candidate)>>
               /\ Len(request) = PrevLimit + 1

\* C13 amended: parseMessages returns the last ParseLimit turns of the
\* preceding text, in the order of the text and none with empty content;
\* the messages sent are the last PrevLimit turns of the preceding text
\* followed by the new user turn, PrevLimit + 1 in all; for a document of
\* k > PrevLimit + 1 one-letter turns they are its last PrevLimit + 1 turns.
C13_LastTurnsKept ==
    (variant = "plain" /\ pc = "Calling"
        /\ Len(AllTurns(PrecedingText(tickDoc))) > PrevLimit)
        => LET prior == PrecedingText(tickDoc)
           IN  /\ parseMessages(prior) = LastN(AllTurns(prior), ParseLimit)
               /\ \A i \in 1..Len(request) : request[i].Content # <<>>
               /\ request = LastN(AllTurns(prior), PrevLimit)
                                \o <<Message("user", candidate)>>
               /\ Len(request) = PrevLimit + 1
               /\ \A k \in (PrevLimit + 2)..MaxTurns :
                      tickDoc = AltDoc(k, 0) \o Terminator
                          => \A i \in 1..(PrevLimit + 1) :
                                 request[i].Content
                                     = <<Letters[k - PrevLimit - 1 + i]>>

C13_Witness ==
    /\ variant = "plain"
    /\ pc = "Calling"
    /\ tickDoc = AltDoc(MaxTurns, 0) \o Terminator
    /\ Len(AllTurns(PrecedingText(tickDoc))) = MaxTurns - 1
    /\ Len(request) = PrevLimit + 1

\* C14: appendToChat only inserts at the end of the file: no step of the
\* program removes or replaces a character of chat.md, a successful write
\* leaves the content found just before it followed by the formatted reply,
\* and a failed write leaves that content in place.
C14_PureInsertion ==
    [][typed' = typed
           => /\ HasPrefix(doc', doc)
              /\ (pc = "Write" /\ pc' = "Reread")
                     => doc' = doc \o Format(variant, response)]_vars

TickErrors == Failures \cup {"ReadError", "RereadError"}

\* the decision a tick takes on the document it reads
Decision(v, prev, currentContent) ==
    LET d == IF v = "plain" THEN Detect(prev, currentContent)
             ELSE DetectMarker(prev, currentContent)
    IN  IF d = "NewUserTurn" THEN "Called" ELSE d

\* C16: an error inside a tick does not stop the loop: after a tick that
\* failed the loop is idle; the next notification it receives is handled as
\* any tick is, by the decision on the document read; while the loop runs
\* and every call returns, the notifications waiting after a failed tick are
\* all received and every tick in flight comes back to idle (the loop is
\* idle again and again).
C16_ErrorsNeverStopLoop ==
    /\ [](outcome \in TickErrors => pc = "Idle")
    /\ [][(outcome \in TickErrors /\ Received /\ faults' = faults)
              => /\ tickDoc' = doc
                 /\ outcome' = Decision(variant, lastContent, doc)]_vars
    /\ (outcome \in TickErrors /\ pending > 0) ~> (pending = 0)
    /\ []<>(pc = "Idle")

C16_Witness ==
    /\ prevOutcome \in TickErrors
    /\ outcome = "Done"
    /\ pc = "Idle"

\* C17: marker variant: a tick that reads a changed document ending with
\* the terminator whose last non-blank line holds "color: orange" calls
\* nothing, writes nothing and stores the content in lastContent; this is
\* the tick after Enter is pressed below a one-line reply the program wrote.
C17_AssistantLineSkipped ==
    [][/\ (/\ variant = "marker"
           /\ Ticked
           /\ doc # lastContent
           /\ EndsWithTwoNewlines(doc)
           /\ Contains(LastNonEmptyLine(doc), OrangeMark))
              => /\ pc' = "Idle"
                 /\ doc' = doc
                 /\ lastContent' = doc
                 /\ request' = request
       /\ (/\ variant = "marker"
           /\ Ticked
           /\ doc # lastContent
           /\ HasSuffix(doc, FormatMarker(<<"a">>, TRUE) \o <<NL>>))
              => (outcome' = "AssistantLast" /\ pc' = "Idle")]_vars

C17_Witness ==
    /\ variant = "marker"
    /\ prevOutcome = "Done"
    /\ outcome = "AssistantLast"
    /\ pc = "Idle"
    /\ lastContent = tickDoc
    /\ lastContent = doc
    /\ HasSuffix(doc, FormatMarker(<<"a">>, TRUE) \o <<NL>>)

\* C18: marker variant: the messages sent to the service are at most
\* ParseLimit, the oldest dropped first, and the last one has role user.
C18_MarkerContextBounded ==
    (variant = "marker" /\ pc = "Calling")
        => /\ Len(request) >= 1
           /\ Len(request) <= ParseLimit
           /\ LastOf(request).Role = "user"

\* C19: plain variant: the program changes chat.md only in the write of a
\* tick whose call returned a reply, and then by appending one reply block;
\* every other step of the program leaves the document as it is, and a call
\* is issued only by the step that begins a tick.
C19_OnlyTheWriteChangesDoc ==
    [][(variant = "plain" /\ typed' = typed)
           => /\ doc' # doc
                     => /\ pc = "Write"
                        /\ outcome = "Called"
                        /\ doc' = doc \o FormatPlain(response, TRUE)
              /\ pc' = "Calling" => (pc = "Idle" /\ Received)]_vars

\* C20: lastContent starts as the content chat.md has at startup: as long
\* as the document is that content, lastContent holds it, the loop is idle
\* and no call has been issued, also when the content ends with a complete
\* user turn and write notifications arrive for it.
C20_StartupTurnNotSent ==
    doc = startDoc
        => /\ lastContent = startDoc
           /\ pc = "Idle"
           /\ request = <<>>
           /\ outcome \in {"none", "NoChange", "ReadError"}

C20_Witness ==
    /\ doc = startDoc
    /\ EndsWithTwoNewlines(doc)
    /\ NewTurnText(doc) # <<>>
    /\ outcome = "NoChange"
    /\ pc = "Idle"
    /\ pending = 0

====
